---- MODULE Spec2Model ----
(***************************************************************************)
(* Model of fetch_usd_rates.py: the date chunker (daterange_chunks), the   *)
(* retrying timeframe fetch (fetch_timeframe), symbol resolution and the   *)
(* batched upsert pipeline (main).                                         *)
(*                                                                         *)
(* Dates are proleptic Gregorian ordinals (datetime.date.toordinal()), so  *)
(* date + timedelta(days=n) is integer addition that raises OverflowError  *)
(* outside 1..DATE_MAX.  Strings that the code parses (symbols_arg) are    *)
(* sequences of one-character strings.                                     *)
(***************************************************************************)
EXTENDS Integers, Sequences, FiniteSets, TLC

(* -------------------------- bounds of the model ------------------------ *)
\* ordinal of 2024-01-01, the first day of the ordinary date window
Day0 == 738886
\* number of days in the ordinary date window of the pipeline runs
NumDays == 3
\* largest batch_days (max_span_days) of a pipeline run
MaxSpan == 2
\* largest upsert_batch_size of a pipeline run
MaxBatch == 2
\* number of days in each date window of the stand-alone chunker runs
ChunkDays == 5
\* largest max_span_days of the stand-alone chunker runs
ChunkSpan == 4

(* -------------------------- program constants -------------------------- *)
\* datetime.date.max.toordinal(), i.e. 9999-12-31
DATE_MAX == 3652059
\* range(3) of the retry loop
MaxAttempts == 3

Min(a, b) == IF a <= b THEN a ELSE b

RECURSIVE Pow2(_)
\* 2 ** n
Pow2(n) == IF n = 0 THEN 1 ELSE 2 * Pow2(n - 1)

(* ------------------------------ daterange_chunks ----------------------- *)
\* date + timedelta(days=n) raises OverflowError outside date.min..date.max
Overflows(d, n) == d + n > DATE_MAX \/ d + n < 1

\* the generator object before its first next(): arguments bound, body not run
NewGen(start) == [status |-> "new", cur |-> start, chunk_end |-> start]

\* one next() on the generator: resume after the last yield (cur = chunk_end +
\* one_day), test the loop condition, compute the next chunk and yield it
GenNext(g, end, max_span_days) ==
    IF g.status = "yielded" /\ Overflows(g.chunk_end, 1)
    THEN [g EXCEPT !.status = "overflow"]
    ELSE LET cur == IF g.status = "new" THEN g.cur ELSE g.chunk_end + 1
             max_span == max_span_days - 1
         IN  IF ~(cur <= end)
             THEN [status |-> "stop", cur |-> cur, chunk_end |-> g.chunk_end]
             ELSE IF Overflows(cur, max_span)
             THEN [status |-> "overflow", cur |-> cur, chunk_end |-> g.chunk_end]
             ELSE [status |-> "yielded", cur |-> cur,
                   chunk_end |-> Min(cur + max_span, end)]

(* ------------------------------ strings -------------------------------- *)
\* ASCII order of the characters the model uses (upper case before lower case)
Alphabet == <<" ", ",",
              "A","B","C","D","E","F","G","H","I","J","K","L","M",
              "N","O","P","Q","R","S","T","U","V","W","X","Y","Z",
              "a","b","c","d","e","f","g","h","i","j","k","l","m",
              "n","o","p","q","r","s","t","u","v","w","x","y","z">>

CharOrd(c) == CHOOSE i \in 1..Len(Alphabet) : Alphabet[i] = c

\* str.upper() on one character
UpperChar(c) == IF CharOrd(c) >= CharOrd("a") THEN Alphabet[CharOrd(c) - 26] ELSE c

\* str.upper()
Upper(s) == [i \in 1..Len(s) |-> UpperChar(s[i])]

RECURSIVE LStrip(_)
LStrip(s) == IF s # <<>> /\ Head(s) = " " THEN LStrip(Tail(s)) ELSE s

RECURSIVE RStrip(_)
RStrip(s) == IF s # <<>> /\ s[Len(s)] = " " THEN RStrip(SubSeq(s, 1, Len(s) - 1)) ELSE s

\* str.strip()
Strip(s) == RStrip(LStrip(s))

RECURSIVE SplitFrom(_, _, _)
SplitFrom(s, i, piece) ==
    IF i > Len(s) THEN <<piece>>
    ELSE IF s[i] = "," THEN <<piece>> \o SplitFrom(s, i + 1, <<>>)
    ELSE SplitFrom(s, i + 1, Append(piece, s[i]))

\* str.split(",")
Split(s) == SplitFrom(s, 1, <<>>)

RECURSIVE StrLess(_, _)
\* s < t on Python strings (lexicographic by code point)
StrLess(s, t) ==
    IF t = <<>> THEN FALSE
    ELSE IF s = <<>> THEN TRUE
    ELSE IF Head(s) = Head(t) THEN StrLess(Tail(s), Tail(t))
    ELSE CharOrd(Head(s)) < CharOrd(Head(t))

Range(f) == {f[i] : i \in DOMAIN f}

RECURSIVE SortedStrs(_)
\* sorted(keys) of a set of strings
SortedStrs(S) ==
    IF S = {} THEN <<>>
    ELSE LET m == CHOOSE x \in S : \A y \in S \ {x} : StrLess(x, y)
         IN  <<m>> \o SortedStrs(S \ {m})

sALL == <<"A","L","L">>
sUSD == <<"U","S","D">>
sEUR == <<"E","U","R">>
sCAD == <<"C","A","D">>
sGBP == <<"G","B","P">>
sNote == <<"n","o","t","e">>

(* ------------------------------ symbols -------------------------------- *)
\* main, lines 174: symbols_arg.strip().upper() == "ALL"
IsAllMode(symbols_arg) == Upper(Strip(symbols_arg)) = sALL

\* main, lines 178-181: the explicit list, upper-cased, blanks dropped, USD appended
ExplicitSymbols(symbols_arg) ==
    LET NonBlank(p) == Strip(p) # <<>>
        parts == SelectSeq(Split(symbols_arg), NonBlank)
        syms == [i \in 1..Len(parts) |-> Upper(Strip(parts[i]))]
    IN  IF sUSD \in Range(syms) THEN syms ELSE Append(syms, sUSD)

\* mutant: the catalog's keys in the order the provider sent them
CatalogUnsorted(currencies) == currencies

\* get_all_symbols, lines 71-72: sorted(currencies.keys())
CatalogSymbols(currencies) == SortedStrs(Range(currencies))

(* ------------------------------ normalization -------------------------- *)
\* A JSON value: a number, a bool (an int to isinstance), a string or null
Num(n) == [type |-> "number", val |-> n]
Str == [type |-> "string", val |-> 0]
Bool(b) == [type |-> "bool", val |-> IF b THEN 1 ELSE 0]

\* line 130: isinstance(v, (int, float)); bool is a subclass of int
IsNumeric(v) == v.type \in {"number", "bool"}

\* line 133: float(v)
ToFloat(v) == v.val

\* k.startswith("USD")
StartsWithUSD(k) == Len(k) >= 3 /\ SubSeq(k, 1, 3) = sUSD

\* line 132: sym = k[3:] if k.startswith("USD") and len(k) == 6 else k
SymOf(k) == IF StartsWithUSD(k) /\ Len(k) = 6 THEN SubSeq(k, 4, Len(k)) ELSE k

\* mutant: every assignment adds an item, also for a key the dict holds
DictSetAppends(d, key, val) == Append(d, [k |-> key, v |-> val])

\* d[key] = val on an insertion-ordered dict, kept as a sequence of items
DictSet(d, key, val) ==
    IF \E i \in DOMAIN d : d[i].k = key
    THEN [i \in DOMAIN d |-> IF d[i].k = key THEN [k |-> key, v |-> val] ELSE d[i]]
    ELSE Append(d, [k |-> key, v |-> val])

RECURSIVE NormalizeInner(_, _)
\* lines 127-133: the loop over obj.items(), inner being the dict built so far
NormalizeInner(obj, inner) ==
    IF obj = <<>> THEN inner
    ELSE LET k == Head(obj).k
             v == Head(obj).v
         IN  NormalizeInner(Tail(obj),
                 IF IsNumeric(v) THEN DictSet(inner, SymOf(k), ToFloat(v)) ELSE inner)

RECURSIVE NormalizeQuotes(_, _)
\* lines 125-135: the loop over quotes.items(), normalized being the dict so far
NormalizeQuotes(quotes, normalized) ==
    IF quotes = <<>> THEN normalized
    ELSE LET q == Head(quotes)
             inner == IF q.isdict THEN NormalizeInner(q.obj, <<>>) ELSE <<>>
         IN  NormalizeQuotes(Tail(quotes), DictSet(normalized, q.date, inner))

Normalize(quotes) == NormalizeQuotes(quotes, <<>>)

RECURSIVE SortedItems(_)
\* line 189: sorted(data.items()); the keys are unique, so the key alone orders
SortedItems(data) ==
    IF data = <<>> THEN <<>>
    ELSE LET i == CHOOSE j \in DOMAIN data : \A l \in DOMAIN data : data[j].k <= data[l].k
         IN  <<data[i]>> \o SortedItems(SubSeq(data, 1, i - 1) \o SubSeq(data, i + 1, Len(data)))

\* lines 192-199: the row of one (date_str, sym, rate)
Row(date_str, sym, rate) ==
    [rate_date |-> date_str, base_currency |-> sUSD, symbol |-> sym,
     rate |-> rate, provider |-> "exchangerate.host"]

\* lines 191-200: the rows of one day, in inner.items() order
DayRows(date_str, inner) == [i \in 1..Len(inner) |-> Row(date_str, inner[i].k, inner[i].v)]

RECURSIVE ItemsRows(_)
ItemsRows(items) ==
    IF items = <<>> THEN <<>>
    ELSE DayRows(Head(items).k, Head(items).v) \o ItemsRows(Tail(items))

\* lines 189-200: the rows one fetched chunk appends to all_rows
ChunkRows(data) == ItemsRows(SortedItems(data))

RECURSIVE TotalQuotes(_)
\* line 201: total_quotes = sum(len(v) for v in data.values())
TotalQuotes(data) == IF data = <<>> THEN 0 ELSE Len(Head(data).v) + TotalQuotes(Tail(data))

\* the natural key of a row
KeyOf(row) == <<row.rate_date, row.base_currency, row.symbol>>

(* ------------------------------ chunked -------------------------------- *)
\* mutant: the slice one row short, iterable[i : i + size - 1]
SliceShort(rows, i, size) == SubSeq(rows, i + 1, Min(i + size - 1, Len(rows)))

\* lines 149-150: the slice iterable[i : i + size] (i counted from 0)
Slice(rows, i, size) == SubSeq(rows, i + 1, Min(i + size, Len(rows)))

(* ------------------------------ the store ------------------------------ *)
\* the row the batch leaves under a key: the last one carrying it
LastOfKey(batch, key) ==
    batch[CHOOSE i \in DOMAIN batch :
              /\ KeyOf(batch[i]) = key
              /\ \A j \in DOMAIN batch : KeyOf(batch[j]) = key => j <= i]

\* mutant: a plain insert, no row is replaced
UpsertInsertsOnly(rows, batch) == rows \cup Range(batch)

\* lines 214-215: upsert(batch) resolved on the primary key (rate_date,
\* base_currency, symbol): rows with a matching key are replaced, the others inserted
Upsert(rows, batch) ==
    LET keys == {KeyOf(batch[i]) : i \in DOMAIN batch}
    IN  {r \in rows : KeyOf(r) \notin keys} \cup {LastOfKey(batch, key) : key \in keys}

(* ------------------------------ inputs ---------------------------------- *)
\* the ordinary date window and the last day of the calendar
Window == Day0..(Day0 + NumDays - 1)
Dates == Window \cup {DATE_MAX}

\* config.yaml "symbols": " all" and "cad, eur, USD"
SymbolArgs ==
    { <<" ","a","l","l">>,
      <<"c","a","d",","," ","e","u","r",","," ","U","S","D">> }

\* the (start, end) of a run: a range within one window, or any end < start
DateRanges == {se \in Dates \X Dates : se[2] - se[1] < NumDays}

\* config.yaml, lines 156-162
Configs ==
    { [start |-> se[1], end |-> se[2], symbols_arg |-> a, batch_days |-> d,
       upsert_batch_size |-> b, dry_run |-> r] :
        se \in DateRanges, a \in SymbolArgs,
        d \in 1..MaxSpan, b \in 1..MaxBatch, r \in BOOLEAN }

\* the /list response body's "currencies" keys, in the body's order
CatalogKeys == <<sUSD, sEUR, sCAD>>

\* what one /list request can end in
CatalogOutcomes == {"transport", "http_error", "bad_json", "api_error", "no_currencies", "ok"}

\* the provider's error.info values of a success=false body
ApiInfos == {"rate_limited", "invalid_key"}

\* the quotes of the success bodies a /timeframe request for [cs, ce] can return:
\* one USD-prefixed quote on every day of the chunk, latest day first; or, for
\* the first day only, a prefixed and a plain key of one symbol, a non-numeric
\* field and a zero quote
QuotesPerDay(cs, ce) ==
    [i \in 1..(ce - cs + 1) |->
        [date |-> ce - i + 1, isdict |-> TRUE,
         obj |-> <<[k |-> sUSD \o sEUR, v |-> Num(90)]>>]]

QuotesMixed(cs, ce) ==
    << [date |-> cs, isdict |-> TRUE,
        obj |-> << [k |-> sUSD \o sEUR, v |-> Num(90)], [k |-> sEUR, v |-> Num(91)],
                   [k |-> sNote, v |-> Str], [k |-> sGBP, v |-> Num(0)] >>] >>

\* a body for the chunk [cs, ce] that holds one day only, Day0, whichever chunk
\* was asked for: a date outside every chunk but the first, quoted at a rate
\* that differs from request to request
QuotesStray(cs, ce) ==
    << [date |-> Day0, isdict |-> TRUE,
        obj |-> << [k |-> sUSD \o sEUR, v |-> Num(92 + cs - Day0)] >>] >>

\* what one /timeframe request for [cs, ce] can end in: session.get raising, an
\* error status, an unparsable body, a success=false body, or a success=true
\* body holding "quotes", "rates" or neither
Outcomes(cs, ce) ==
    { [kind |-> "transport", detail |-> "connection", field |-> "none", quotes |-> <<>>],
      [kind |-> "http_error", detail |-> "status", field |-> "none", quotes |-> <<>>],
      [kind |-> "bad_json", detail |-> "json", field |-> "none", quotes |-> <<>>],
      [kind |-> "success", detail |-> "", field |-> "none", quotes |-> <<>>],
      [kind |-> "success", detail |-> "", field |-> "quotes", quotes |-> QuotesPerDay(cs, ce)],
      [kind |-> "success", detail |-> "", field |-> "quotes", quotes |-> QuotesStray(cs, ce)],
      [kind |-> "success", detail |-> "", field |-> "rates", quotes |-> QuotesMixed(cs, ce)] }
    \cup { [kind |-> "api_error", detail |-> i, field |-> "none", quotes |-> <<>>] :
             i \in ApiInfos }

(* ------------------------------ state ----------------------------------- *)
VARIABLES
    pc,               \* where main (or the stand-alone chunker) stands
    cfg,              \* the loaded configuration
    symbols,          \* main's symbols
    gen,              \* the daterange_chunks generator
    chunks,           \* the chunks the generator has yielded, in order
    attempt,          \* fetch_timeframe's loop variable
    requests,         \* session.get calls of the current fetch_timeframe call
    slept,            \* seconds passed to time.sleep in the current call
    history,          \* what each request of the current call ended in
    data,             \* the normalized mapping fetch_timeframe returned
    fetched,          \* how many fetch_timeframe calls have returned
    quotes_seen,      \* the sum of the total_quotes main reported per chunk
    error,            \* the exception or exit that ended the run
    all_rows,         \* main's accumulator
    batch_i,          \* chunked's offset i
    total,            \* main's total
    client,           \* whether supabase_client() built a client
    store,            \* the rows of the table
    upserts,          \* the upsert calls in order: the batch, and whether it was accepted
    catalog_calls,    \* /list requests issued
    timeframe_called, \* whether any /timeframe request was issued
    env,              \* the names os.environ holds a value for
    run,              \* which invocation of the script this is
    prev,             \* how the previous invocation ended and how many rows it wrote
    replay,           \* the body each chunk's fetch returned from in the first run
    row_chunks        \* for each row of all_rows, the number of the chunk it came from

vars == <<pc, cfg, symbols, gen, chunks, attempt, requests, slept, history, data,
          fetched, quotes_seen, error, all_rows, batch_i, total, client, store, upserts, catalog_calls,
          timeframe_called, env, run, prev, replay, row_chunks>>

fetchVars == <<attempt, requests, slept, history, data>>
countVars == <<fetched, quotes_seen>>
storeVars == <<batch_i, total, client, store, upserts>>
runVars == <<env, run, prev, replay, row_chunks>>

\* the three required environment variables (module docstring, lines 14-17)
Secrets == {"SUPABASE_URL", "SUPABASE_SERVICE_ROLE_KEY", "EXCHANGERATE_HOST_KEY"}

\* os.environ.get(name) is truthy
EnvHas(name) == name \in env

NoError == [type |-> "none", detail |-> ""]

Raise(type, detail) == [type |-> type, detail |-> detail]

InitRest ==
    /\ symbols = <<>>
    /\ gen = NewGen(cfg.start)
    /\ chunks = <<>>
    /\ attempt = 0
    /\ requests = 0
    /\ slept = 0
    /\ history = <<>>
    /\ data = <<>>
    /\ fetched = 0
    /\ quotes_seen = 0
    /\ error = NoError
    /\ all_rows = <<>>
    /\ batch_i = 0
    /\ total = 0
    /\ client = FALSE
    /\ store = {}
    /\ upserts = <<>>
    /\ catalog_calls = 0
    /\ timeframe_called = FALSE
    /\ run = 1
    /\ prev = [end |-> "none", written |-> 0]
    /\ replay = <<>>
    /\ row_chunks = <<>>

Init ==
    /\ pc = "main"
    /\ cfg \in Configs
    /\ env \in SUBSET Secrets
    /\ InitRest

(* ------------------------------ fetch_timeframe ------------------------- *)
\* mutant: a linear schedule, time.sleep(2 * attempt)
BackoffLinear(a) == 2 * a

\* lines 104 and 112: time.sleep(2 ** attempt)
BackoffSeconds(a) == Pow2(a)

\* mutant: the budget test one attempt early, if attempt == 1
IsLastAttemptEarly(a) == a = 1

\* lines 102 and 110: if attempt == 2
IsLastAttempt(a) == a = 2

Continue == [next |-> "continue", error |-> NoError, data |-> <<>>]
Raised(type, detail) == [next |-> "raise", error |-> Raise(type, detail), data |-> <<>>]
Returned(d) == [next |-> "return", error |-> NoError, data |-> d]

\* mutant: the shape error handled like the failures inside the try block
MalformedPayloadRetried(a) ==
    IF IsLastAttempt(a) THEN Raised("RuntimeError", "Unexpected /timeframe payload shape")
    ELSE Continue

\* lines 116-122: neither "quotes" nor "rates" is a dict; the raise sits after
\* the retry handling, in no try block
MalformedPayload(a) == Raised("RuntimeError", "Unexpected /timeframe payload shape")

\* lines 97-135: one pass of the retry loop, the request ending in out
AttemptResult(a, out) ==
    CASE out.kind = "transport" ->
            \* line 97 is outside the try: the exception leaves the function
            Raised("ConnectionError", out.detail)
      [] out.kind = "http_error" ->
            IF IsLastAttempt(a) THEN Raised("HTTPError", out.detail) ELSE Continue
      [] out.kind = "bad_json" ->
            IF IsLastAttempt(a) THEN Raised("JSONDecodeError", out.detail) ELSE Continue
      [] out.kind = "api_error" ->
            IF IsLastAttempt(a) THEN Raised("RuntimeError", out.detail) ELSE Continue
      [] out.kind = "success" ->
            IF out.field = "none"
            THEN MalformedPayload(a)
            ELSE Returned(Normalize(out.quotes))

(* ------------------------------ main ------------------------------------ *)
\* an exception or sys.exit leaves main: the run is over
Abort(e) ==
    /\ pc' = "raised"
    /\ error' = e

\* mutant: main swallows the fetch error and goes on to write what it has
FetchErrorSwallowed(e) ==
    /\ pc' = "prepared"
    /\ error' = error

\* line 187: the call is in no try block, fetch_timeframe's exception leaves main
FetchRaises(e) == Abort(e)

\* mutant: no range check before the access key is read
MainStartUnchecked ==
    /\ pc = "main"
    /\ \E access_key \in {EnvHas("EXCHANGERATE_HOST_KEY")} :
          IF ~access_key
          THEN Abort(Raise("SystemExit", "Missing EXCHANGERATE_HOST_KEY in .env"))
          ELSE pc' = "symbols" /\ error' = error
    /\ UNCHANGED <<runVars, countVars, cfg, symbols, gen, chunks, fetchVars, all_rows, storeVars,
                   catalog_calls, timeframe_called>>

\* lines 154-171: load the configuration, validate the range, read the access key
MainStart ==
    /\ pc = "main"
    /\ \E access_key \in {EnvHas("EXCHANGERATE_HOST_KEY")} :
          IF cfg.end < cfg.start
          THEN Abort(Raise("SystemExit", "End date must be on/after start date"))
          ELSE IF ~access_key
          THEN Abort(Raise("SystemExit", "Missing EXCHANGERATE_HOST_KEY in .env"))
          ELSE pc' = "symbols" /\ error' = error
    /\ UNCHANGED <<runVars, countVars, cfg, symbols, gen, chunks, fetchVars, all_rows, storeVars,
                   catalog_calls, timeframe_called>>

\* lines 62-72 of get_all_symbols, what the /list request ends in
CatalogResult(outcome) ==
    CASE outcome = "transport" -> Raised("ConnectionError", "connection")
      [] outcome = "http_error" -> Raised("HTTPError", "status")
      [] outcome = "bad_json" -> Raised("JSONDecodeError", "json")
      [] outcome = "api_error" -> Raised("RuntimeError", "/list failed")
      [] outcome = "no_currencies" -> Raised("KeyError", "currencies")
      [] outcome = "ok" -> Returned(CatalogSymbols(CatalogKeys))

\* lines 174-176 and 183: ALL mode, one /list request
GetAllSymbols ==
    /\ pc = "symbols"
    /\ IsAllMode(cfg.symbols_arg)
    /\ catalog_calls' = catalog_calls + 1
    /\ \E outcome \in CatalogOutcomes :
          LET r == CatalogResult(outcome)
          IN  IF r.next = "raise"
              THEN Abort(r.error) /\ UNCHANGED <<symbols, gen>>
              ELSE /\ symbols' = r.data
                   /\ gen' = NewGen(cfg.start)
                   /\ pc' = "chunks"
                   /\ error' = error
    /\ UNCHANGED <<runVars, countVars, cfg, chunks, fetchVars, all_rows, storeVars, timeframe_called>>

\* lines 177-183: the explicit list
ParseSymbols ==
    /\ pc = "symbols"
    /\ ~IsAllMode(cfg.symbols_arg)
    /\ symbols' = ExplicitSymbols(cfg.symbols_arg)
    /\ gen' = NewGen(cfg.start)
    /\ pc' = "chunks"
    /\ UNCHANGED <<runVars, countVars, cfg, chunks, fetchVars, error, all_rows, storeVars, catalog_calls,
                   timeframe_called>>

\* line 186: the for loop asks the generator for the next chunk
NextChunk ==
    /\ pc = "chunks"
    /\ gen' = GenNext(gen, cfg.end, cfg.batch_days)
    /\ chunks' = IF gen'.status = "yielded"
                 THEN Append(chunks, <<gen'.cur, gen'.chunk_end>>) ELSE chunks
    /\ CASE gen'.status = "yielded" -> pc' = "fetch" /\ error' = error
         [] gen'.status = "stop" -> pc' = "prepared" /\ error' = error
         [] gen'.status = "overflow" ->
                Abort(Raise("OverflowError", "date value out of range"))
    /\ UNCHANGED <<runVars, countVars, cfg, symbols, fetchVars, all_rows, storeVars, catalog_calls,
                   timeframe_called>>

\* lines 96-137: one pass of fetch_timeframe's retry loop for the current chunk,
\* the request ending in one of outs
FetchAttemptFrom(outs) ==
    /\ pc = "fetch"
    /\ \E out \in outs :
          LET r == IF attempt < MaxAttempts THEN AttemptResult(attempt, out)
                   ELSE Raised("RuntimeError", "Unreachable")
          IN  /\ requests' = IF attempt < MaxAttempts THEN requests + 1 ELSE requests
              /\ history' = IF attempt < MaxAttempts
                            THEN Append(history, out)
                            ELSE history
              /\ timeframe_called' = (timeframe_called \/ attempt < MaxAttempts)
              /\ CASE r.next = "continue" ->
                        /\ slept' = slept + BackoffSeconds(attempt)
                        /\ attempt' = attempt + 1
                        /\ UNCHANGED <<pc, error, data>>
                   [] r.next = "raise" ->
                        /\ FetchRaises(r.error)
                        /\ UNCHANGED <<slept, attempt, data>>
                   [] r.next = "return" ->
                        /\ data' = r.data
                        /\ pc' = "flatten"
                        /\ UNCHANGED <<slept, attempt, error>>
              /\ fetched' = IF r.next = "return" THEN fetched + 1 ELSE fetched
              /\ replay' = IF r.next = "return" /\ run = 1 THEN Append(replay, out) ELSE replay
    /\ UNCHANGED <<env, run, prev, row_chunks, quotes_seen, cfg, symbols, gen, chunks, all_rows, storeVars,
                   catalog_calls>>

\* mutant: the chunk's rows go in front of the rows gathered so far
AccumulateInFront(rows, new) == new \o rows

\* line 200: all_rows.append(row), for each row of the chunk in turn
Accumulate(rows, new) == rows \o new

\* line 187: fetch_timeframe for the chunk the generator last yielded
\* (a later invocation gets the body the first one got for the same chunk)
FetchAttempt ==
    FetchAttemptFrom(IF run = 1 THEN Outcomes(gen.cur, gen.chunk_end)
                     ELSE {replay[Len(chunks)]})

\* lines 188-202: append the chunk's rows; fetch_timeframe's frame is gone
AppendRows ==
    /\ pc = "flatten"
    /\ all_rows' = Accumulate(all_rows, ChunkRows(data))
    /\ row_chunks' = Accumulate(row_chunks, [i \in 1..Len(ChunkRows(data)) |-> Len(chunks)])
    /\ pc' = "chunks"
    /\ attempt' = 0
    /\ requests' = 0
    /\ slept' = 0
    /\ history' = <<>>
    /\ data' = <<>>
    /\ quotes_seen' = quotes_seen + TotalQuotes(data)
    /\ UNCHANGED <<env, run, prev, replay, fetched, cfg, symbols, gen, chunks, error, storeVars, catalog_calls,
                   timeframe_called>>

\* mutant: the dry_run test is missing, the client is always built
PreparedAlwaysWrites ==
    /\ pc = "prepared"
    /\ \E url \in {EnvHas("SUPABASE_URL")}, key \in {EnvHas("SUPABASE_SERVICE_ROLE_KEY")} :
          IF ~url \/ ~key
          THEN Abort(Raise("EnvironmentError", "Set SUPABASE_URL and SUPABASE_SERVICE_ROLE_KEY"))
               /\ UNCHANGED client
          ELSE pc' = "upsert" /\ client' = TRUE /\ error' = error
    /\ batch_i' = 0
    /\ total' = 0
    /\ UNCHANGED <<runVars, countVars, cfg, symbols, gen, chunks, fetchVars, all_rows, store, upserts,
                   catalog_calls, timeframe_called>>

\* lines 204-212: report, return on dry-run, else build the store client
Prepared ==
    /\ pc = "prepared"
    /\ IF cfg.dry_run
       THEN pc' = "done" /\ UNCHANGED <<error, client>>
       ELSE \E url \in {EnvHas("SUPABASE_URL")}, key \in {EnvHas("SUPABASE_SERVICE_ROLE_KEY")} :
               IF ~url \/ ~key
               THEN Abort(Raise("EnvironmentError", "Set SUPABASE_URL and SUPABASE_SERVICE_ROLE_KEY"))
                    /\ UNCHANGED client
               ELSE pc' = "upsert" /\ client' = TRUE /\ error' = error
    /\ batch_i' = 0
    /\ total' = 0
    /\ UNCHANGED <<runVars, countVars, cfg, symbols, gen, chunks, fetchVars, all_rows, store, upserts,
                   catalog_calls, timeframe_called>>

\* mutant: a rejected batch is skipped and the loop goes on with the next one
UpsertBatchContinues ==
    /\ pc = "upsert"
    /\ batch_i < Len(all_rows)
    /\ LET batch == Slice(all_rows, batch_i, cfg.upsert_batch_size)
       IN  \E accepted \in BOOLEAN :
              /\ upserts' = Append(upserts, [batch |-> batch, accepted |-> accepted])
              /\ store' = IF accepted THEN Upsert(store, batch) ELSE store
              /\ total' = IF accepted THEN total + Len(batch) ELSE total
              /\ batch_i' = batch_i + cfg.upsert_batch_size
              /\ UNCHANGED <<pc, error>>
    /\ UNCHANGED <<runVars, countVars, cfg, symbols, gen, chunks, fetchVars, all_rows, client,
                   catalog_calls, timeframe_called>>

\* lines 213-216: one batch of chunked(all_rows, upsert_batch_size), which the
\* store commits or rejects
UpsertBatch ==
    /\ pc = "upsert"
    /\ batch_i < Len(all_rows)
    /\ LET batch == Slice(all_rows, batch_i, cfg.upsert_batch_size)
       IN  \E accepted \in BOOLEAN :
              /\ upserts' = Append(upserts, [batch |-> batch, accepted |-> accepted])
              /\ IF accepted
                 THEN /\ store' = Upsert(store, batch)
                      /\ total' = total + Len(batch)
                      /\ batch_i' = batch_i + cfg.upsert_batch_size
                      /\ UNCHANGED <<pc, error>>
                 ELSE /\ Abort(Raise("StoreError", "rejected"))
                      /\ UNCHANGED <<store, total, batch_i>>
    /\ UNCHANGED <<runVars, countVars, cfg, symbols, gen, chunks, fetchVars, all_rows, client,
                   catalog_calls, timeframe_called>>

\* line 217: chunked is exhausted
Finish ==
    /\ pc = "upsert"
    /\ batch_i >= Len(all_rows)
    /\ pc' = "done"
    /\ UNCHANGED <<runVars, countVars, cfg, symbols, gen, chunks, fetchVars, error, all_rows, storeVars,
                   catalog_calls, timeframe_called>>

Next ==
    \/ MainStart
    \/ GetAllSymbols
    \/ ParseSymbols
    \/ NextChunk
    \/ FetchAttempt
    \/ AppendRows
    \/ Prepared
    \/ UpsertBatch
    \/ Finish

Spec == Init /\ [][Next]_vars

(* ------------------------------ the script invoked again ---------------- *)
MaxRuns == 2

\* line 220 once more: after a completed write run, or after one that the store
\* ended part-way through its batches, the script is started again with the
\* same config.yaml and environment; the table keeps its rows, the process
\* state is new
Rerun ==
    /\ run < MaxRuns
    /\ ~cfg.dry_run
    /\ pc = "done" \/ (pc = "raised" /\ error.type = "StoreError")
    /\ run' = run + 1
    /\ prev' = [end |-> IF pc = "done" THEN "done" ELSE error.type, written |-> total]
    /\ pc' = "main"
    /\ symbols' = <<>>
    /\ gen' = NewGen(cfg.start)
    /\ chunks' = <<>>
    /\ attempt' = 0
    /\ requests' = 0
    /\ slept' = 0
    /\ history' = <<>>
    /\ data' = <<>>
    /\ fetched' = 0
    /\ quotes_seen' = 0
    /\ error' = NoError
    /\ all_rows' = <<>>
    /\ row_chunks' = <<>>
    /\ batch_i' = 0
    /\ total' = 0
    /\ client' = FALSE
    /\ upserts' = <<>>
    /\ catalog_calls' = 0
    /\ timeframe_called' = FALSE
    /\ UNCHANGED <<cfg, env, store, replay>>

RerunNext == Next \/ Rerun

SpecRerun == Init /\ [][RerunNext]_vars

(* ------------------------------ the chunker alone ----------------------- *)
\* the inputs of a stand-alone daterange_chunks call: start <= end within the
\* ordinary window or within the last days of the calendar
ChunkRanges ==
    {se \in (Day0..(Day0 + ChunkDays - 1)) \X (Day0..(Day0 + ChunkDays - 1)) : se[1] <= se[2]}
    \cup {se \in ((DATE_MAX - ChunkDays + 1)..DATE_MAX) \X ((DATE_MAX - ChunkDays + 1)..DATE_MAX) :
             se[1] <= se[2]}

ChunkInit ==
    /\ pc = "chunker"
    /\ cfg \in { [start |-> se[1], end |-> se[2], symbols_arg |-> <<>>, batch_days |-> d,
                  upsert_batch_size |-> 1, dry_run |-> TRUE] :
                   se \in ChunkRanges, d \in 1..ChunkSpan }
    /\ env = Secrets
    /\ InitRest

\* lines 51-59: one next() of a consumer that drains the generator
DaterangeChunks ==
    /\ pc = "chunker"
    /\ gen.status \in {"new", "yielded"}
    /\ gen' = GenNext(gen, cfg.end, cfg.batch_days)
    /\ chunks' = IF gen'.status = "yielded"
                 THEN Append(chunks, <<gen'.cur, gen'.chunk_end>>) ELSE chunks
    /\ UNCHANGED <<runVars, countVars, pc, cfg, symbols, fetchVars, error, all_rows, storeVars,
                   catalog_calls, timeframe_called>>

SpecChunks == ChunkInit /\ [][DaterangeChunks]_vars

(* ======================================================================= *)
(* Properties                                                              *)
(* ======================================================================= *)
Ceil(n, b) == (n + b - 1) \div b

RECURSIVE Concat(_)
\* the batches of a sequence of upsert calls, joined in call order
Concat(calls) == IF calls = <<>> THEN <<>> ELSE Head(calls).batch \o Concat(Tail(calls))

\* the generator has finished, by StopIteration or by an exception
GenFinished == gen.status \in {"stop", "overflow"}

\* the yielded chunks are ascending, contiguous, start at start, end at end and
\* each covers at most max_span_days days
ChunksPartition ==
    /\ chunks # <<>>
    /\ chunks[1][1] = cfg.start
    /\ chunks[Len(chunks)][2] = cfg.end
    /\ \A i \in DOMAIN chunks :
          /\ chunks[i][1] <= chunks[i][2]
          /\ chunks[i][2] - chunks[i][1] + 1 <= cfg.batch_days
    /\ \A i \in 1..(Len(chunks) - 1) : chunks[i + 1][1] = chunks[i][2] + 1

\* C1: for every start <= end and max_span_days >= 1, the chunks that
\* daterange_chunks produces are ascending and contiguous, the first starts at
\* start, the last ends at end, and each covers at most max_span_days days.
C1_ChunksPartitionRange == (pc = "chunker" /\ GenFinished) => ChunksPartition

\* every chunk of the range has been yielded and its fetch has returned
AllChunksFetched ==
    /\ gen.status = "stop"
    /\ chunks # <<>>
    /\ chunks[Len(chunks)][2] = cfg.end
    /\ fetched = Len(chunks)

\* the run ended inside fetch_timeframe (history is kept only while a call runs)
FetchFailed == pc = "raised" /\ history # <<>>

\* C2: every upsert call happens after the fetch of the last chunk has returned;
\* a run whose fetch of some chunk ended in an error has made no upsert call,
\* built no client and written nothing.
C2_WritesOnlyAfterAllFetched ==
    /\ upserts # <<>> => AllChunksFetched
    /\ FetchFailed => (upserts = <<>> /\ store = {} /\ ~client)

\* C2 witness: the fetch of a later chunk failed with rows of earlier chunks held
C2_Witness ==
    /\ FetchFailed
    /\ ~cfg.dry_run
    /\ Len(chunks) >= 2
    /\ all_rows # <<>>
    /\ upserts = <<>>

\* C3: a write run that completes with n rows and batch size b has issued
\* ceil(n / b) upsert calls; all but the last carry b rows, the last 1..b rows,
\* and the batches joined in call order are the accumulated rows.
C3_BatchesPartitionRows ==
    (pc = "done" /\ ~cfg.dry_run) =>
        LET n == Len(all_rows)
            b == cfg.upsert_batch_size
            m == Len(upserts)
        IN  /\ m = Ceil(n, b)
            /\ \A k \in 1..(m - 1) : Len(upserts[k].batch) = b
            /\ m > 0 => Len(upserts[m].batch) \in 1..b
            /\ Concat(upserts) = all_rows
            /\ total = n

\* C3 witness: three rows written with batch size two, in two calls of 2 and 1
C3_Witness ==
    /\ pc = "done"
    /\ ~cfg.dry_run
    /\ Len(all_rows) = 3
    /\ cfg.upsert_batch_size = 2
    /\ Len(upserts) = 2
    /\ Len(upserts[1].batch) = 2
    /\ Len(upserts[2].batch) = 1

\* C4: in a dry run no client is ever built and no upsert call is ever made,
\* nothing is written, and the rows prepared are the quotes fetched.
C4_DryRunNeverTouchesStore ==
    cfg.dry_run =>
        /\ ~client
        /\ upserts = <<>>
        /\ store = {}
        /\ total = 0
        /\ pc \in {"chunks", "prepared", "done"} => Len(all_rows) = quotes_seen

\* C4 witness: a dry run that completed with three rows prepared
C4_Witness ==
    /\ cfg.dry_run
    /\ pc = "done"
    /\ Len(all_rows) = 3
    /\ quotes_seen = 3

\* C5: a run whose end date is before its start date is rejected by sys.exit
\* before any /list request, /timeframe request or store operation.
C5_EndBeforeStartRejected ==
    cfg.end < cfg.start =>
        /\ pc \in {"main", "raised"}
        /\ pc = "raised" =>
              error = Raise("SystemExit", "End date must be on/after start date")
        /\ catalog_calls = 0
        /\ ~timeframe_called
        /\ ~client
        /\ upserts = <<>>

\* C5 witness: the rejected run
C5_Witness ==
    /\ cfg.end < cfg.start
    /\ pc = "raised"
    /\ error.type = "SystemExit"

\* what the claims call a transient error of a response
TransientKinds == {"http_error", "bad_json", "api_error"}

\* the retry triggers of the design: the transient errors and a transport failure
RetryableKinds == TransientKinds \cup {"transport"}

\* C6: after two transient failures the call is still running with its third
\* attempt ahead; when the third response is a success carrying quotes the call
\* returns that response's normalized mapping, raising nothing, after exactly 3
\* requests.
C6_ThirdAttemptSucceeds ==
    /\ (/\ Len(history) = 2
        /\ history[1].kind \in TransientKinds
        /\ history[2].kind \in TransientKinds)
       => (pc = "fetch" /\ attempt = 2 /\ requests = 2 /\ error = NoError)
    /\ (/\ Len(history) = 3
        /\ history[1].kind \in TransientKinds
        /\ history[2].kind \in TransientKinds
        /\ history[3].kind = "success"
        /\ history[3].field # "none")
       => (/\ pc = "flatten"
           /\ requests = 3
           /\ error = NoError
           /\ data = Normalize(history[3].quotes))

\* C6 witness: an error status, then a success=false body, then a success
C6_Witness ==
    /\ pc = "flatten"
    /\ Len(history) = 3
    /\ history[1].kind = "http_error"
    /\ history[2].kind = "api_error"
    /\ history[3].kind = "success"
    /\ requests = 3
    /\ data # <<>>

\* C7: a transport failure of the request on the first or second attempt is a
\* retry trigger: the call goes on to a further attempt instead of failing.
C7_TransportFailureRetried ==
    (/\ history # <<>>
     /\ Len(history) < MaxAttempts
     /\ history[Len(history)].kind = "transport")
    => (pc = "fetch" /\ error = NoError)

\* C8: a call never issues a 4th request, and a call that failed with every
\* attempt ending in a retryable failure raised after exactly 3 requests, its
\* error carrying the detail of the third failure.
C8_ExhaustionAfterThree ==
    /\ requests <= MaxAttempts
    /\ (FetchFailed /\ \A i \in DOMAIN history : history[i].kind \in RetryableKinds)
       => (/\ requests = 3
           /\ Len(history) = 3
           /\ error.detail = history[3].detail)

\* the current fetch_timeframe call made 3 requests and the third failed too
FailedOnThird == FetchFailed /\ Len(history) = 3

\* the current fetch_timeframe call returned on its first request
ReturnedOnFirst == pc = "flatten" /\ Len(history) = 1

\* C9 as stated: the waits are 0s, 2s and 4s, so a call that fails on all 3
\* attempts has slept 6 seconds, and one that succeeds at once has slept 0.
C9_SleepsZeroTwoFour ==
    /\ FailedOnThird => slept = 6
    /\ ReturnedOnFirst => slept = 0

\* C9 amended: the waits are 2 ** attempt seconds after failed attempt 0 and 1
\* (1s, then 2s), none before the first request and none after the third
\* failure; a call that fails on all 3 attempts has slept 3 seconds, and one
\* that succeeds at once has slept 0.
C9_SleepsOneTwo ==
    /\ (pc \in {"fetch", "flatten"} \/ FetchFailed) =>
          /\ attempt \in 0..2
          /\ slept = CASE attempt = 0 -> 0
                      [] attempt = 1 -> 1
                      [] attempt = 2 -> 1 + 2
          /\ requests = IF pc = "fetch" THEN attempt ELSE attempt + 1
    /\ FailedOnThird => slept = 3
    /\ ReturnedOnFirst => slept = 0

\* C9 witness: a call that failed on all three attempts, having slept 1 + 2
C9_Witness ==
    /\ FailedOnThird
    /\ \A i \in DOMAIN history : history[i].kind \in TransientKinds
    /\ slept = 3

\* a table keyed by the natural key after rows were upserted in order into an
\* empty one: of the rows with one key, the last
LastPerKey(rows) ==
    { rows[i] : i \in { j \in DOMAIN rows :
                          \A l \in DOMAIN rows : l > j => KeyOf(rows[l]) # KeyOf(rows[j]) } }

\* C10: a rejected batch is the last upsert call of the run, which ends with the
\* store's error; the batches before it were accepted and their rows, and
\* nothing of the rejected batch or of later ones, are what the store holds.
C10_RejectedBatchAborts ==
    /\ \A k \in DOMAIN upserts :
          ~upserts[k].accepted =>
              (k = Len(upserts) /\ pc = "raised" /\ error = Raise("StoreError", "rejected"))
    /\ (pc = "raised" /\ error.type = "StoreError") =>
          LET k == Len(upserts)
              before == SubSeq(upserts, 1, k - 1)
          IN  /\ k >= 1
              /\ ~upserts[k].accepted
              /\ \A j \in 1..(k - 1) : upserts[j].accepted
              /\ Concat(before) = SubSeq(all_rows, 1, (k - 1) * cfg.upsert_batch_size)
              /\ store = LastPerKey(Concat(before))
              /\ total = Len(Concat(before))

\* C10 witness: the second of at least three batches was rejected
C10_Witness ==
    /\ pc = "raised"
    /\ error.type = "StoreError"
    /\ Len(upserts) = 2
    /\ upserts[1].accepted
    /\ ~upserts[2].accepted
    /\ store # {}
    /\ Ceil(Len(all_rows), cfg.upsert_batch_size) >= 3

\* C20: for start <= end and max_span_days >= 1, with N = end - start + 1,
\* daterange_chunks stops after yielding ceil(N / max_span_days) chunks; all but
\* the last cover max_span_days days, the last covers 1..max_span_days days; a
\* single-day range yields the one chunk (start, start).
C20_ChunkCountAndSizes ==
    (pc = "chunker" /\ GenFinished) =>
        LET n == cfg.end - cfg.start + 1
            m == Len(chunks)
            span(i) == chunks[i][2] - chunks[i][1] + 1
        IN  /\ gen.status = "stop"
            /\ m = Ceil(n, cfg.batch_days)
            /\ \A i \in 1..(m - 1) : span(i) = cfg.batch_days
            /\ m > 0 => span(m) \in 1..cfg.batch_days
            /\ cfg.start = cfg.end => chunks = << <<cfg.start, cfg.start>> >>

\* the /list request failed: the run ended before any symbol was resolved
CatalogFailed ==
    /\ pc = "raised"
    /\ catalog_calls = 1
    /\ symbols = <<>>

\* the /list request succeeded
CatalogResolved == catalog_calls = 1 /\ symbols # <<>>

\* C15: ALL mode issues exactly one /list request and never a second one; when
\* it fails the run ends with an error before any /timeframe request and any
\* store call; when it succeeds the symbols are exactly the catalog's codes in
\* ascending order.
C15_CatalogOnceNoRetry ==
    /\ catalog_calls <= 1
    /\ pc \in {"main", "symbols"} => catalog_calls = 0
    /\ (pc = "chunks" /\ gen.status = "new") =>
           (catalog_calls = 1 <=> IsAllMode(cfg.symbols_arg))
    /\ (catalog_calls = 1 /\ pc # "raised") => CatalogResolved
    /\ CatalogFailed =>
           /\ error # NoError
           /\ ~timeframe_called /\ requests = 0 /\ fetched = 0
           /\ ~client /\ upserts = <<>> /\ store = {}
    /\ CatalogResolved =>
           /\ Range(symbols) = Range(CatalogKeys)
           /\ Len(symbols) = Cardinality(Range(CatalogKeys))
           /\ \A i \in 1..(Len(symbols) - 1) : StrLess(symbols[i], symbols[i + 1])

\* the /list body did not report success and the run ended there
C15_Witness == CatalogFailed /\ error = Raise("RuntimeError", "/list failed")

\* the other case: the catalog was read and the run went on to fetch
CatalogThenFetch == CatalogResolved /\ pc = "fetch" /\ timeframe_called

\* C16: every accumulated row has a positive rate, whatever numbers the
\* provider sent (zero and negative included).
C16_RatesPositive == \A i \in DOMAIN all_rows : all_rows[i].rate > 0

\* the last /timeframe response reported success without quotes or rates
MalformedLast ==
    /\ history # <<>>
    /\ history[Len(history)].kind = "success"
    /\ history[Len(history)].field = "none"

\* C17: a success response with neither quotes nor rates makes fetch_timeframe
\* raise on that very attempt (first, second or third): no sleep follows it, no
\* further request is sent, and the run ends without any store call.
C17_MalformedRaisesAtOnce ==
    MalformedLast =>
        /\ pc = "raised"
        /\ error = Raise("RuntimeError", "Unexpected /timeframe payload shape")
        /\ attempt \in 0..2
        /\ requests = attempt + 1 /\ Len(history) = requests
        /\ slept = (CASE attempt = 0 -> 0 [] attempt = 1 -> 1 [] attempt = 2 -> 3)
        /\ \A i \in 1..(Len(history) - 1) : history[i].kind \in TransientKinds
        /\ ~client /\ upserts = <<>> /\ store = {}

\* the malformed body came on the second attempt, after one retried failure
C17_Witness == MalformedLast /\ attempt = 1 /\ pc = "raised" /\ slept = 1

\* the malformed body came on the third attempt
MalformedOnThird == MalformedLast /\ attempt = 2 /\ pc = "raised"

(* ------------------------------ the explicit symbol list alone ---------- *)
MaxTokens == 2

\* pieces a user may write between the commas of config.yaml's "symbols": codes
\* in either case, with blanks around them, and empty or blank pieces
SymbolTokens ==
    { <<"c","a","d">>, <<" ","e","u","r">>, <<"E","U","R">>, <<"U","S","D">>,
      <<"u","s","d"," ">>, <<>>, <<" ">> }

RECURSIVE JoinComma(_)
\* ",".join(tokens)
JoinComma(tokens) ==
    IF Len(tokens) = 1 THEN tokens[1]
    ELSE tokens[1] \o <<",">> \o JoinComma(Tail(tokens))

TokenLists == UNION { [1..n -> SymbolTokens] : n \in 1..MaxTokens }

\* the "symbols" strings: every list of at most MaxTokens pieces
SymbolLists == { JoinComma(t) : t \in TokenLists }

\* main stands at line 173 with an explicit list configured
SymbolsInit ==
    /\ pc = "symbols"
    /\ cfg \in { c \in [start : {Day0}, end : {Day0}, symbols_arg : SymbolLists,
                        batch_days : {1}, upsert_batch_size : {1}, dry_run : {TRUE}] :
                   ~IsAllMode(c.symbols_arg) }
    /\ env = Secrets
    /\ InitRest

SpecSymbols == SymbolsInit /\ [][ParseSymbols]_vars

\* the codes the input names: its non-blank pieces, stripped and upper-cased
InputCodes == { Upper(Strip(p)) : p \in { q \in Range(Split(cfg.symbols_arg)) : Strip(q) # <<>> } }

\* C12: the resolved explicit list is upper case, holds no code twice, holds
\* every code of the input, and holds USD.
C12_SymbolsUpperUniqueWithUSD ==
    (pc = "chunks" /\ ~IsAllMode(cfg.symbols_arg)) =>
        /\ \A i \in DOMAIN symbols : symbols[i] = Upper(symbols[i])
        /\ \A i, j \in DOMAIN symbols : i # j => symbols[i] # symbols[j]
        /\ InputCodes \subseteq Range(symbols)
        /\ sUSD \in Range(symbols)

\* the same without the uniqueness: upper case, complete, with USD, nothing else
SymbolsUpperCompleteWithUSD ==
    (pc = "chunks" /\ ~IsAllMode(cfg.symbols_arg)) =>
        /\ \A i \in DOMAIN symbols : symbols[i] = Upper(symbols[i])
        /\ Range(symbols) = InputCodes \cup {sUSD}

(* ------------------------------ normalization alone --------------------- *)
MaxEntries == 3

sUSDT == <<"U","S","D","T">>

\* keys of one day's object: a prefixed pair, a plain code, a metadata field, and
\* a key that starts with USD without being 6 characters long
QuoteKeys == {sUSD \o sEUR, sEUR, sNote, sUSDT}

\* JSON values of one day's object: two numbers, a string, true
QuoteValues == {Num(90), Num(91), Str, Bool(TRUE)}

\* one day's JSON object: at most MaxEntries members with distinct names, in
\* the body's order
QuoteObjects ==
    UNION { { o \in [1..n -> [k : QuoteKeys, v : QuoteValues]] :
                \A i, j \in 1..n : i # j => o[i].k # o[j].k } : n \in 0..MaxEntries }

\* success bodies for the one-day chunk [cs, cs], under "quotes" or "rates"
RichOutcomes(cs) ==
    { [kind |-> "success", detail |-> "", field |-> f,
       quotes |-> << [date |-> cs, isdict |-> TRUE, obj |-> o] >>] :
        f \in {"quotes", "rates"}, o \in QuoteObjects }

\* a dry run over the single day Day0 with an explicit symbol list
NormalizeInit ==
    /\ pc = "main"
    /\ cfg \in { c \in Configs : /\ c.start = Day0 /\ c.end = Day0
                                 /\ c.batch_days = 1 /\ c.upsert_batch_size = 1
                                 /\ c.dry_run /\ ~IsAllMode(c.symbols_arg) }
    /\ env = Secrets
    /\ InitRest

\* line 187 with a provider that answers every request with a success body
FetchRich == FetchAttemptFrom(RichOutcomes(gen.cur))

NormalizeNext == MainStart \/ ParseSymbols \/ NextChunk \/ FetchRich \/ AppendRows

SpecNormalize == NormalizeInit /\ [][NormalizeNext]_vars

\* a JSON number (an integer or a real; true and false are not numbers)
JsonNumber(v) == v.type = "number"

\* the key an entry is stored under: a 6-character key beginning with USD loses
\* that prefix, any other key is unchanged
StrippedKey(k) ==
    IF Len(k) = 6 /\ k[1] = "U" /\ k[2] = "S" /\ k[3] = "D" THEN <<k[4], k[5], k[6]>> ELSE k

MaxOf(S) == CHOOSE x \in S : \A y \in S : y <= x

\* fetch_timeframe has just returned data for a one-date body: data holds that
\* date with exactly the entries Numeric accepts, each under its stripped key
\* with the value of the last such entry of the body
NormalizedBy(Numeric(_)) ==
    pc = "flatten" =>
        LET q == history[Len(history)].quotes[1]
            body == q.obj
            kept == {i \in DOMAIN body : Numeric(body[i].v)}
            inner == data[1].v
        IN  /\ Len(data) = 1 /\ data[1].k = q.date
            /\ \A i, j \in DOMAIN inner : i # j => inner[i].k # inner[j].k
            /\ {inner[i].k : i \in DOMAIN inner} = {StrippedKey(body[i].k) : i \in kept}
            /\ \A i \in DOMAIN inner :
                  inner[i].v =
                      body[MaxOf({j \in kept : StrippedKey(body[j].k) = inner[i].k})].v.val

\* C13: the mapping fetch_timeframe returns holds, per date, exactly the entries
\* with a numeric value, a 6-character USD-prefixed key stripped of the prefix,
\* other keys unchanged, non-numeric entries absent, the last processed entry
\* of a symbol winning.
C13_NormalizedExactlyNumeric == NormalizedBy(JsonNumber)

\* the same with true and false counted as numbers, as isinstance does
NormalizedCountingBool == NormalizedBy(IsNumeric)

\* the spec's example {"USDEUR": 0.9, "EUR": 0.91, "note": "x"} gave {EUR: 0.91}
NormalizedExample ==
    /\ pc = "flatten"
    /\ history[Len(history)].quotes[1].obj =
           << [k |-> sUSD \o sEUR, v |-> Num(90)], [k |-> sEUR, v |-> Num(91)],
              [k |-> sNote, v |-> Str] >>
    /\ data[1].v = << [k |-> sEUR, v |-> 91] >>

\* C14: when any of the three required secrets is absent the run makes no
\* provider call (catalog or timeframe) and never completes successfully, in
\* dry-run mode as in write mode.
C14_MissingSecretFailsAtStartup ==
    env # Secrets => (catalog_calls = 0 /\ ~timeframe_called /\ pc # "done")

\* what holds instead: without the access key nothing is requested and the run
\* never completes; without a store secret a write run never builds a client,
\* never writes and never completes
MissingSecretStopsWhereRead ==
    /\ ~EnvHas("EXCHANGERATE_HOST_KEY") =>
           (catalog_calls = 0 /\ ~timeframe_called /\ pc \in {"main", "raised"})
    /\ (~cfg.dry_run /\ ~(EnvHas("SUPABASE_URL") /\ EnvHas("SUPABASE_SERVICE_ROLE_KEY"))) =>
           (~client /\ upserts = <<>> /\ store = {} /\ pc # "done")

\* a dry run without the store secrets fetched its chunks and completed
DryRunDoneWithoutStoreSecrets ==
    /\ pc = "done" /\ cfg.dry_run /\ timeframe_called
    /\ ~EnvHas("SUPABASE_URL") /\ ~EnvHas("SUPABASE_SERVICE_ROLE_KEY")

\* the order the run's state shows: symbols are set before any /timeframe
\* request; the yielded chunks ascend; the requests of the running fetch belong
\* to the chunk yielded last, every earlier chunk's fetch having returned; the
\* rows stand in the order of the chunks they came from
SequentialState ==
    /\ pc \in {"main", "symbols"} => (symbols = <<>> /\ ~timeframe_called /\ chunks = <<>>)
    /\ timeframe_called => symbols # <<>>
    /\ \A i \in 1..(Len(chunks) - 1) : chunks[i][2] < chunks[i + 1][1]
    /\ pc = "fetch" => fetched = Len(chunks) - 1
    /\ requests > 0 => (gen.status = "yielded" /\ fetched \in {Len(chunks) - 1, Len(chunks)})
    /\ fetched <= Len(chunks)
    /\ Len(row_chunks) = Len(all_rows)
    /\ \A i \in DOMAIN row_chunks : row_chunks[i] \in 1..fetched
    /\ \A i \in 1..(Len(row_chunks) - 1) : row_chunks[i] <= row_chunks[i + 1]

\* the order of the steps: symbols are assigned once, from unset, before any
\* request; a request is sent only for the chunk yielded last, after every
\* earlier fetch has returned; the next chunk is asked for only after the
\* running fetch has returned and its rows were appended
SequentialStep ==
    /\ symbols' # symbols => (symbols = <<>> /\ pc = "symbols" /\ ~timeframe_called)
    /\ Len(history') > Len(history) => (fetched = Len(chunks) - 1 /\ chunks' = chunks)
    /\ chunks' # chunks =>
           /\ fetched = Len(chunks) /\ requests = 0
           /\ Len(all_rows) = Len(row_chunks) /\ all_rows' = all_rows
    /\ all_rows' # all_rows =>
           /\ chunks' = chunks /\ fetched = Len(chunks)
           /\ SubSeq(all_rows', 1, Len(all_rows)) = all_rows

\* C18: the pipeline is sequential and ordered: symbols are resolved once,
\* before the first /timeframe request; chunks are fetched one at a time in
\* ascending date order, a chunk's fetch with all its retries finishing before
\* the next chunk's first request; every row of an earlier chunk precedes every
\* row of a later chunk.
C18_SequentialInChunkOrder == []SequentialState /\ [][SequentialStep]_vars

\* two chunks were fetched one after the other and both gave rows
C18_Witness ==
    /\ pc = "prepared"
    /\ Len(chunks) = 2 /\ fetched = 2
    /\ all_rows # <<>>
    /\ row_chunks[1] = 1 /\ row_chunks[Len(row_chunks)] = 2

\* every accumulated row is dated inside the chunk whose response it came from
RowsDatedInChunk ==
    \A i \in DOMAIN all_rows :
        /\ all_rows[i].rate_date >= chunks[row_chunks[i]][1]
        /\ all_rows[i].rate_date <= chunks[row_chunks[i]][2]

\* no two rows of the sequence have the same natural key
KeysDistinct(rows) == \A i, j \in DOMAIN rows : i # j => KeyOf(rows[i]) # KeyOf(rows[j])

\* C19: when the provider returned, for each chunk, only dates inside that
\* chunk, the accumulated rows hold no natural key twice, after any number of
\* chunks and also when a day's quotes had a plain and a USD-prefixed key for
\* one symbol; so no upsert batch carries a key twice.
C19_NoDuplicateKeys ==
    RowsDatedInChunk =>
        /\ KeysDistinct(all_rows)
        /\ \A k \in DOMAIN upserts : KeysDistinct(upserts[k].batch)

\* two chunks were fetched with in-chunk dates only, one day's object holding
\* both USDEUR and EUR, of which the later one's rate made the row
C19_Witness ==
    /\ pc = "prepared"
    /\ Len(chunks) = 2 /\ fetched = 2
    /\ RowsDatedInChunk
    /\ \E i, j \in DOMAIN all_rows :
          /\ row_chunks[i] = 1 /\ row_chunks[j] = 2
          /\ all_rows[i].symbol = sEUR /\ all_rows[i].rate = 91

\* a date outside its chunk came back and one key is in the rows twice
StrayDateRepeatsKey == ~RowsDatedInChunk /\ ~KeysDistinct(all_rows)

RECURSIVE ReplayRows(_)
\* the rows a run accumulates from the bodies in r, chunk after chunk
ReplayRows(r) ==
    IF r = <<>> THEN <<>>
    ELSE ChunkRows(Normalize(Head(r).quotes)) \o ReplayRows(Tail(r))

\* C11: with the provider returning the same responses, a completed write run
\* leaves the table in one state whether it was the first run, a second run
\* after a completed one, or a run from scratch after one that failed part-way
\* through its batches: the rows of one run, one row per natural key.
C11_RerunIdempotent ==
    (pc = "done" /\ ~cfg.dry_run) =>
        /\ all_rows = ReplayRows(replay)
        /\ store = LastPerKey(ReplayRows(replay))
        /\ \A r1, r2 \in store : KeyOf(r1) = KeyOf(r2) => r1 = r2

\* a run whose second or later batch the store rejected was started again and
\* completed
C11_Witness ==
    /\ run = 2 /\ pc = "done"
    /\ prev.end = "StoreError" /\ prev.written > 0
    /\ Len(upserts) >= 2

\* a completed write run was started again and completed
RerunAfterDone == run = 2 /\ pc = "done" /\ prev.end = "done" /\ store # {}

====
